---- MODULE Spec2Model ----
(***************************************************************************)
(* Fixed-depth binary Merkle tree of snarkVM (algorithms/src/merkle_tree/   *)
(* merkle_tree.rs): MerkleTree::new, MerkleTree::rebuild and                *)
(* MerkleTree::generate_proof, with the index arithmetic they rest on.      *)
(*                                                                          *)
(* Digests are symbolic terms, so that the hash capability is deterministic *)
(* and collision free:  <<"E">> is the digest of hash_empty, <<"L", l>> the *)
(* digest of hash_leaf(l) and <<"I", a, b>> that of hash_inner_node(a, b).  *)
(* Arrays (Vec) indexed from 0 in the source are functions on 0..n-1 here,  *)
(* so that every index of the model is the index of the source.             *)
(***************************************************************************)
EXTENDS Integers, Sequences, FiniteSets, TLC

VARIABLES DEPTH, chunk, self, origin, call

vars == <<DEPTH, chunk, self, origin, call>>

(***************************************************************************)
(* Bounds of the model.                                                     *)
(***************************************************************************)
MaxDepth == 3       \* P::DEPTH ranges over 0..MaxDepth
MaxChunk == 2       \* the batch size of hash_row ranges over 1..MaxChunk
MaxLeafVal == 2     \* leaf values are 1..MaxLeafVal
MaxLeaves == 3      \* MerkleTree::new is called with at most MaxLeaves leaves
MaxNew == 3         \* MerkleTree::rebuild is called with at most MaxNew new leaves
MaxStart == 3       \* MerkleTree::rebuild is called with start_index in 0..MaxStart
MaxIndex == 3       \* generate_proof is called with index in 0..MaxIndex
MaxRebuilds == 2    \* at most MaxRebuilds calls of rebuild follow a call of new
HighBit == 48       \* rebuild is also called with start_index = 2^HighBit; P::DEPTH is
                    \* HighBit in the specification SpecHigh

LeafVals == 1..MaxLeafVal

RECURSIVE SeqsUpTo(_)
SeqsUpTo(n) ==
    IF n = 0 THEN {<<>>}
    ELSE LET S == SeqsUpTo(n - 1)
         IN S \cup {Append(s, v) : s \in {t \in S : Len(t) = n - 1}, v \in LeafVals}

(***************************************************************************)
(* The hash capability (trait MerkleParameters).                            *)
(***************************************************************************)
hash_empty == <<"E">>

hash_leaf(leaf) == <<"L", leaf>>

hash_inner_node(left, right) == <<"I", left, right>>

(***************************************************************************)
(* Index arithmetic.                                                        *)
(***************************************************************************)
RECURSIVE Pow2(_)
Pow2(k) == IF k = 0 THEN 1 ELSE 2 * Pow2(k - 1)

RECURSIVE NextPow2From(_, _)
NextPow2From(p, n) == IF p >= n THEN p ELSE NextPow2From(2 * p, n)

\* usize::next_power_of_two: the smallest power of two >= n, 1 for n = 0.
next_power_of_two(n) == NextPow2From(1, n)

\* The least k from which the f64 logarithm of 2^k - 1 rounds to k: the results lie
\* in [32, 64), where an f64 has 47 fraction bits, and k - log2(2^k - 1), about
\* 1.4427 / 2^k, is below half a unit in the last place (2^-48) exactly from k = 49 on.
F64LogRoundsFrom == 49

RECURSIVE FloorLog2(_)
FloorLog2(number) == IF number <= 1 THEN 0 ELSE 1 + FloorLog2(number \div 2)

\* (number as f64).log2() as usize, for the arguments tree_depth is called with: 0 (the
\* cast of -inf saturates to 0) and the array sizes 2^k - 1.  It is the integer part of
\* the logarithm, k - 1, as long as the f64 result does not round up to k.
log2(number) ==
    LET f == FloorLog2(number)
    IN  IF f + 1 >= F64LogRoundsFrom /\ number = Pow2(f + 1) - 1 THEN f + 1 ELSE f

tree_depth(tree_size) == log2(tree_size)

\* tree_depth(2^k - 1), k >= 1, computed on the exponent: the sizes from 2^31 on are
\* not written as integers here.
tree_depth_of_pow2_minus_1(k) == IF k >= F64LogRoundsFrom THEN k ELSE k - 1

is_root(index) == index = 0

left_child(index) == 2 * index + 1

right_child(index) == 2 * index + 2

is_left_child(index) == index % 2 = 1

\* Option<usize>: <<>> is None, <<i>> is Some(i).
sibling(index) ==
    IF index = 0 THEN <<>>
    ELSE IF is_left_child(index) THEN <<index + 1>>
    ELSE <<index - 1>>

parent(index) == IF index > 0 THEN <<(index - 1) \div 2>> ELSE <<>>

\* Variant: the offset of the last level taken one too far.
convert_index_to_last_level_Off(index, depth) == index + Pow2(depth)

convert_index_to_last_level(index, depth) == index + Pow2(depth) - 1

\* The items the iterator Ancestors(idx) yields, in order.
RECURSIVE Ancestors(_)
Ancestors(idx) ==
    IF parent(idx) # <<>> THEN <<parent(idx)[1]>> \o Ancestors(parent(idx)[1])
    ELSE <<>>

Range(s) == {s[i] : i \in DOMAIN s}

\* Vec::len of an array indexed from 0.
len(a) == Cardinality(DOMAIN a)

(***************************************************************************)
(* Values: trees, results, errors.                                          *)
(***************************************************************************)
None == <<"None">>

\* #[derive(Default)]: no root, no nodes.
DefaultTree ==
    [root |-> None, tree |-> <<>>, hashed_leaves_index |-> 0, padding_tree |-> <<>>]

InvalidTreeDepth(d, max) == <<"InvalidTreeDepth", d, max>>
IncorrectLeafIndex(i) == <<"IncorrectLeafIndex", i, 0>>
InvalidPathLength(n, max) == <<"InvalidPathLength", n, max>>
IncorrectPathLength(n) == <<"IncorrectPathLength", n, 0>>
NoError == <<"", 0, 0>>

\* Result<MerkleTree, MerkleError> / Result<MerklePath, MerkleError>, or a panic.
\* hashes is the number of calls of the hash capability made by the call.
OkTree(t, n) == [kind |-> "Ok", err |-> NoError, tree |-> t, path |-> <<>>, hashes |-> n]
OkPath(p, n) == [kind |-> "Ok", err |-> NoError, tree |-> DefaultTree, path |-> p, hashes |-> n]
Err(e, n) == [kind |-> "Err", err |-> e, tree |-> DefaultTree, path |-> <<>>, hashes |-> n]
Panic(n) == [kind |-> "Panic", err |-> NoError, tree |-> DefaultTree, path |-> <<>>, hashes |-> n]
NoResult == [kind |-> "None", err |-> NoError, tree |-> DefaultTree, path |-> <<>>, hashes |-> 0]

(***************************************************************************)
(* hash_row: the inputs are cut into batches of `chunk` items (500 in the   *)
(* source), each batch is hashed on its own, and the batches are returned   *)
(* in order.  Here the argument is the sequence of digests of the inputs.   *)
(***************************************************************************)
Min(a, b) == IF a <= b THEN a ELSE b

RECURSIVE Chunks(_, _)
Chunks(s, size) ==
    IF Len(s) = 0 THEN <<>>
    ELSE <<SubSeq(s, 1, Min(size, Len(s)))>> \o Chunks(SubSeq(s, Min(size, Len(s)) + 1, Len(s)), size)

hash_row(leaves) == Chunks([i \in 1..Len(leaves) |-> hash_leaf(leaves[i])], chunk)

\* hash_row on the pairs (tree[left_child(i)], tree[right_child(i)]), i in lo..hi-1.
hash_row_pairs(tree, lo, hi) ==
    Chunks([k \in 1..(hi - lo) |->
              hash_inner_node(tree[left_child(lo + k - 1)], tree[right_child(lo + k - 1)])],
           chunk)

\* tree[at .. at + len(sub)].copy_from_slice(sub)
copy_from_slice(tree, at, sub) ==
    [i \in DOMAIN tree |-> IF i >= at /\ i < at + Len(sub) THEN sub[i - at + 1] ELSE tree[i]]

\* The starting index (on the left) of each level, from the root down: depth + 1 entries.
RECURSIVE LevelIndices(_, _)
LevelIndices(n, index) ==
    IF n = 0 THEN <<>> ELSE <<index>> \o LevelIndices(n - 1, left_child(index))

Reverse(s) == [i \in 1..Len(s) |-> s[Len(s) + 1 - i]]

(***************************************************************************)
(* MerkleTree::new                                                          *)
(***************************************************************************)
\* for subsection in subsections { copy at base + subsection_index; subsection_index += len }
RECURSIVE NewCopySubsections(_, _, _, _)
NewCopySubsections(tree, base, subsection_index, subsections) ==
    IF subsections = <<>> THEN tree
    ELSE NewCopySubsections(copy_from_slice(tree, base + subsection_index, Head(subsections)),
                            base, subsection_index + Len(Head(subsections)), Tail(subsections))

\* for &start_index in &level_indices { hash the level; upper_bound = start_index }
RECURSIVE NewLevels(_, _, _)
NewLevels(tree, level_indices, upper_bound) ==
    IF level_indices = <<>> THEN tree
    ELSE LET start_index == Head(level_indices)
             hashes == hash_row_pairs(tree, start_index, upper_bound)
         IN NewLevels(NewCopySubsections(tree, start_index, 0, hashes),
                      Tail(level_indices), start_index)

\* Variant: a pair is pushed at the top level too.
RECURSIVE PaddingLoop_PushTop(_, _, _)
PaddingLoop_PushTop(current_hash, current_depth, padding_tree) ==
    IF current_depth < DEPTH
    THEN LET h == hash_inner_node(current_hash, hash_empty)
         IN PaddingLoop_PushTop(h, current_depth + 1, Append(padding_tree, <<h, hash_empty>>))
    ELSE <<current_hash, padding_tree>>

\* while current_depth < DEPTH { hash against empty; push unless at the top level }
\* Returns <<current_hash, padding_tree>>.
RECURSIVE PaddingLoop(_, _, _)
PaddingLoop(current_hash, current_depth, padding_tree) ==
    IF current_depth < DEPTH
    THEN LET h == hash_inner_node(current_hash, hash_empty)
         IN PaddingLoop(h, current_depth + 1,
                        IF current_depth < DEPTH - 1
                        THEN Append(padding_tree, <<h, hash_empty>>)
                        ELSE padding_tree)
    ELSE <<current_hash, padding_tree>>

PaddingHashes(depth) == IF depth < DEPTH THEN DEPTH - depth ELSE 0

new(leaves) ==
    LET last_level_size == next_power_of_two(Len(leaves))
        tree_size == 2 * last_level_size - 1
        depth == tree_depth(tree_size)
    IN  IF depth > DEPTH THEN Err(InvalidTreeDepth(depth, DEPTH), 0)
        ELSE
        LET empty_hash == hash_empty
            tree0 == [i \in 0..(tree_size - 1) |-> empty_hash]
            all_levels == LevelIndices(depth + 1, 0)
            last_level_index == all_levels[Len(all_levels)]
            level_indices == Reverse(SubSeq(all_levels, 1, Len(all_levels) - 1))
            subsections == hash_row(leaves)
            tree1 == NewCopySubsections(tree0, last_level_index, 0, subsections)
            tree2 == NewLevels(tree1, level_indices, last_level_index)
            pad == PaddingLoop(tree2[0], depth, <<>>)
        IN  OkTree([root |-> pad[1], tree |-> tree2,
                    hashed_leaves_index |-> last_level_index,
                    padding_tree |-> pad[2]],
                   1 + Len(leaves) + last_level_index + PaddingHashes(depth))

(***************************************************************************)
(* MerkleTree::rebuild                                                      *)
(***************************************************************************)
\* &self.tree[self.hashed_leaves_index..], indexed from 0.
hashed_leaves(t) ==
    [i \in 0..(len(t.tree) - t.hashed_leaves_index - 1) |-> t.tree[t.hashed_leaves_index + i]]

\* slice.get(i): <<>> is None, <<d>> is Some(d).
Get(tree, i) == IF i \in DOMAIN tree THEN <<tree[i]>> ELSE <<>>

\* for (i, subsection) in subsections.into_iter().enumerate() { copy at base + i }
RECURSIVE RebuildCopySubsections(_, _, _, _)
RebuildCopySubsections(tree, base, i, subsections) ==
    IF subsections = <<>> THEN tree
    ELSE RebuildCopySubsections(copy_from_slice(tree, base + i, Head(subsections)),
                                base, i + 1, Tail(subsections))

\* Variant: the right child is not compared with the old tree.
Dirty_LeftOnly(old, tree, new_indices, current_index) ==
    \/ current_index \in new_indices
    \/ Get(old.tree, left_child(current_index)) # Get(tree, left_child(current_index))
    \/ \E idx \in new_indices : current_index \in Range(Ancestors(idx))

\* The condition under which rebuild hashes the node current_index again.
Dirty(old, tree, new_indices, current_index) ==
    \/ current_index \in new_indices
    \/ Get(old.tree, left_child(current_index)) # Get(tree, left_child(current_index))
    \/ Get(old.tree, right_child(current_index)) # Get(tree, right_child(current_index))
    \/ \E idx \in new_indices : current_index \in Range(Ancestors(idx))

\* for current_index in start_index..upper_bound { rehash or copy from the old tree }
\* acc is [tree, hashes]: the array so far and the number of hash_inner_node calls.
RECURSIVE RebuildLevel(_, _, _, _, _)
RebuildLevel(old, acc, new_indices, current_index, upper_bound) ==
    IF current_index >= upper_bound THEN acc
    ELSE LET left_index == left_child(current_index)
             right_index == right_child(current_index)
             dirty == Dirty(old, acc.tree, new_indices, current_index)
             digest == IF dirty
                       THEN hash_inner_node(acc.tree[left_index], acc.tree[right_index])
                       ELSE old.tree[current_index]
         IN RebuildLevel(old,
                         [tree |-> [acc.tree EXCEPT ![current_index] = digest],
                          hashes |-> acc.hashes + (IF dirty THEN 1 ELSE 0)],
                         new_indices, current_index + 1, upper_bound)

RECURSIVE RebuildLevels(_, _, _, _, _)
RebuildLevels(old, acc, new_indices, level_indices, upper_bound) ==
    IF level_indices = <<>> THEN acc
    ELSE RebuildLevels(old,
                       RebuildLevel(old, acc, new_indices, Head(level_indices), upper_bound),
                       new_indices, Tail(level_indices), Head(level_indices))

\* Variant: the last of the old hashed leaves is not copied.
ClonePrefix_Short(tree, last_level_index, start_index, old_leaves) ==
    [i \in DOMAIN tree |->
        IF i >= last_level_index /\ i < last_level_index + start_index - 1
        THEN old_leaves[i - last_level_index] ELSE tree[i]]

\* tree[last_level_index..][..start_index].clone_from_slice(&self.hashed_leaves()[..start_index])
ClonePrefix(tree, last_level_index, start_index, old_leaves) ==
    [i \in DOMAIN tree |->
        IF i >= last_level_index /\ i < last_level_index + start_index
        THEN old_leaves[i - last_level_index] ELSE tree[i]]

\* The array rebuild computes once the depth check and the slice bounds have passed:
\* [tree, hashes, last_level_index], hashes counting hash_empty, the leaves and the
\* rehashed nodes.
RebuildTree(old, start_index, new_leaves) ==
    LET last_level_size == next_power_of_two(start_index + Len(new_leaves))
        tree_size == 2 * last_level_size - 1
        depth == tree_depth(tree_size)
        empty_hash == hash_empty
        tree0 == [i \in 0..(tree_size - 1) |-> empty_hash]
        all_levels == LevelIndices(depth + 1, 0)
        new_indices == start_index..(start_index + Len(new_leaves) - 1)
        last_level_index == all_levels[Len(all_levels)]
        level_indices == Reverse(SubSeq(all_levels, 1, Len(all_levels) - 1))
        tree1 == ClonePrefix(tree0, last_level_index, start_index, hashed_leaves(old))
        subsections == hash_row(new_leaves)
        tree2 == RebuildCopySubsections(tree1, last_level_index + start_index, 0, subsections)
        lv == RebuildLevels(old, [tree |-> tree2, hashes |-> 0], new_indices,
                            level_indices, last_level_index)
    IN  [tree |-> lv.tree, hashes |-> 1 + Len(new_leaves) + lv.hashes,
         last_level_index |-> last_level_index]

\* rebuild with start_index = 2^HighBit + start_low: the total leaf count is
\* 2^HighBit + start_low + len(new_leaves), last_level_size its next power of two 2^e and
\* tree_size = 2^(e + 1) - 1.  Past the depth check, vec![empty_hash; tree_size] cannot
\* be allocated and the call does not return.
rebuild_high(old, start_low, new_leaves) ==
    LET e == IF start_low + Len(new_leaves) = 0 THEN HighBit ELSE HighBit + 1
        depth == tree_depth_of_pow2_minus_1(e + 1)
    IN  IF depth > DEPTH THEN Err(InvalidTreeDepth(depth, DEPTH), 0)
        ELSE Panic(1)

\* start_index is start_hi * 2^HighBit + start_index, start_hi in {0, 1}.
rebuild(old, start_hi, start_index, new_leaves) ==
    IF start_hi # 0 THEN rebuild_high(old, start_index, new_leaves) ELSE
    LET last_level_size == next_power_of_two(start_index + Len(new_leaves))
        tree_size == 2 * last_level_size - 1
        depth == tree_depth(tree_size)
    IN  IF depth > DEPTH THEN Err(InvalidTreeDepth(depth, DEPTH), 0)
        \* self.hashed_leaves()[..start_index]: the range must lie within the slice
        ELSE IF start_index > len(hashed_leaves(old)) THEN Panic(1)
        ELSE
        LET empty_hash == hash_empty
            built == RebuildTree(old, start_index, new_leaves)
            tree == built.tree
            last_level_index == built.last_level_index
        IN  IF tree[0] = old.tree[0]
            THEN \* self.padding_tree.last().unwrap()
                 IF old.padding_tree = <<>> THEN Panic(built.hashes)
                 ELSE OkTree([root |-> hash_inner_node(
                                        old.padding_tree[Len(old.padding_tree)][1],
                                        empty_hash),
                              tree |-> tree,
                              hashed_leaves_index |-> last_level_index,
                              padding_tree |-> old.padding_tree],
                             built.hashes + 1)
            ELSE LET pad == PaddingLoop(tree[0], depth, <<>>)
                 IN  OkTree([root |-> pad[1], tree |-> tree,
                             hashed_leaves_index |-> last_level_index,
                             padding_tree |-> pad[2]],
                            built.hashes + PaddingHashes(depth))

(***************************************************************************)
(* MerkleTree::generate_proof                                               *)
(***************************************************************************)
\* Variant: the digest of the node itself is pushed instead of its sibling's.
RECURSIVE ProofWalk_OwnDigest(_, _, _)
ProofWalk_OwnDigest(tree, current_node, path) ==
    IF is_root(current_node) THEN path
    ELSE ProofWalk_OwnDigest(tree, parent(current_node)[1], Append(path, tree[current_node]))

\* while !is_root(current_node) { push the sibling's digest; go to the parent }
RECURSIVE ProofWalk(_, _, _)
ProofWalk(tree, current_node, path) ==
    IF is_root(current_node) THEN path
    ELSE ProofWalk(tree, parent(current_node)[1],
                   Append(path, tree[sibling(current_node)[1]]))

generate_proof(t, index, leaf) ==
    LET leaf_hash == hash_leaf(leaf)
        depth == tree_depth(len(t.tree))
        tree_index == convert_index_to_last_level(index, depth)
    IN  \* self.tree[tree_index]: the index must lie within the array
        IF tree_index \notin DOMAIN t.tree THEN Panic(1)
        ELSE IF leaf_hash # t.tree[tree_index] THEN Err(IncorrectLeafIndex(tree_index), 1)
        ELSE
        LET path0 == ProofWalk(t.tree, tree_index, <<>>)
        IN  IF Len(path0) > DEPTH THEN Err(InvalidPathLength(Len(path0), DEPTH), 1)
            ELSE
            LET path1 == IF Len(path0) # DEPTH
                         THEN Append(path0, hash_empty)
                              \o [k \in 1..Len(t.padding_tree) |-> t.padding_tree[k][2]]
                         ELSE path0
                hashes == IF Len(path0) # DEPTH THEN 2 ELSE 1
            IN  IF Len(path1) # DEPTH THEN Err(IncorrectPathLength(Len(path1)), hashes)
                ELSE OkPath(path1, hashes)

(***************************************************************************)
(* State machine: a caller that holds one tree (self), calls new, rebuild   *)
(* and generate_proof on it, and takes each result before the next call.    *)
(* origin records how self was obtained: the leaves given to new, or the    *)
(* total leaf count start_index + len(new_leaves) of the last rebuild.      *)
(***************************************************************************)
NoOrigin == [by |-> "none", leaves |-> <<>>, count |-> 0, rebuilds |-> 0]

NoCall ==
    [op |-> "none", leaves |-> <<>>, start_hi |-> 0, start_index |-> 0, index |-> 0, leaf |-> 0,
     old |-> DefaultTree, oldOrigin |-> NoOrigin, res |-> NoResult]

LeafSeqs == SeqsUpTo(MaxLeaves)

NewSeqs == SeqsUpTo(MaxNew)

\* <<hi, low>> is the start_index hi * 2^HighBit + low.
StartIndices == {<<0, low>> : low \in 0..MaxStart} \cup {<<1, 0>>}

Init ==
    /\ DEPTH \in 0..MaxDepth
    /\ chunk \in 1..MaxChunk
    /\ self = DefaultTree
    /\ origin = NoOrigin
    /\ call = NoCall

\* let tree = MerkleTree::new(parameters, leaves)
New ==
    /\ call.op = "none"
    /\ \E leaves \in LeafSeqs :
        LET res == new(leaves)
        IN  /\ call' = [op |-> "new", leaves |-> leaves, start_hi |-> 0, start_index |-> 0, index |-> 0,
                        leaf |-> 0, old |-> DefaultTree, oldOrigin |-> NoOrigin,
                        res |-> res]
            /\ IF res.kind = "Ok"
               THEN /\ self' = res.tree
                    /\ origin' = [by |-> "new", leaves |-> leaves, count |-> Len(leaves),
                                  rebuilds |-> 0]
               ELSE UNCHANGED <<self, origin>>
    /\ UNCHANGED <<DEPTH, chunk>>

\* let tree = tree.rebuild(start_index, new_leaves)
Rebuild ==
    /\ call.op = "none"
    /\ self # DefaultTree
    /\ origin.rebuilds < MaxRebuilds
    /\ \E start \in StartIndices, new_leaves \in NewSeqs :
        LET start_hi == start[1]
            start_index == start[2]
            res == rebuild(self, start_hi, start_index, new_leaves)
        IN  /\ call' = [op |-> "rebuild", leaves |-> new_leaves,
                        start_hi |-> start_hi, start_index |-> start_index,
                        index |-> 0, leaf |-> 0,
                        old |-> self, oldOrigin |-> origin, res |-> res]
            /\ IF res.kind = "Ok"
               THEN /\ self' = res.tree
                    /\ origin' = [by |-> "rebuild", leaves |-> <<>>,
                                  count |-> start_index + Len(new_leaves),
                                  rebuilds |-> origin.rebuilds + 1]
               ELSE UNCHANGED <<self, origin>>
    /\ UNCHANGED <<DEPTH, chunk>>

\* let path = tree.generate_proof(index, &leaf)
GenerateProof ==
    /\ call.op = "none"
    /\ self # DefaultTree
    /\ \E index \in 0..MaxIndex, leaf \in LeafVals :
        call' = [op |-> "generate_proof", leaves |-> <<>>, start_hi |-> 0, start_index |-> 0,
                 index |-> index, leaf |-> leaf, old |-> self, oldOrigin |-> origin,
                 res |-> generate_proof(self, index, leaf)]
    /\ UNCHANGED <<DEPTH, chunk, self, origin>>

\* The caller has taken the result of the call.
Return ==
    /\ call.op # "none"
    /\ call' = NoCall
    /\ UNCHANGED <<DEPTH, chunk, self, origin>>

Next == New \/ Rebuild \/ GenerateProof \/ Return

Spec == Init /\ [][Next]_vars

\* The same program with P::DEPTH = HighBit.
InitHigh ==
    /\ DEPTH = HighBit
    /\ chunk \in 1..MaxChunk
    /\ self = DefaultTree
    /\ origin = NoOrigin
    /\ call = NoCall

SpecHigh == InitHigh /\ [][Next]_vars

TypeOK == call.res.kind \in {"None", "Ok", "Err", "Panic"}

(***************************************************************************)
(* Notions the properties are stated with.                                  *)
(***************************************************************************)
\* The least d with 2^d >= n: log2(2L - 1) for L = nextPowerOfTwo(n).
RECURSIVE DepthFrom(_, _)
DepthFrom(d, n) == IF Pow2(d) >= n THEN d ELSE DepthFrom(d + 1, n)

DepthOf(n) == DepthFrom(0, n)

ActualDepth(t) == DepthOf((len(t.tree) + 1) \div 2)

\* x -> hashInner(x, emptyDigest), applied n times.
RECURSIVE HashChain(_, _)
HashChain(x, n) == IF n <= 0 THEN x ELSE HashChain(<<"I", x, <<"E">>>>, n - 1)

Returned(op) == call.op = op /\ call.res.kind = "Ok"

\* The positions strictly above pos in an array stored root first.
RECURSIVE StrictAncestors(_)
StrictAncestors(pos) ==
    IF pos = 0 THEN {} ELSE {(pos - 1) \div 2} \cup StrictAncestors((pos - 1) \div 2)

\* Folding a path from a leaf digest: the running digest is the left operand when
\* the node reached is a left child (odd position) and on every padding level.
RECURSIVE FoldPath(_, _, _, _)
FoldPath(acc, pos, path, k) ==
    IF k > Len(path) THEN acc
    ELSE IF pos = 0 THEN FoldPath(<<"I", acc, path[k]>>, 0, path, k + 1)
    ELSE IF pos % 2 = 1 THEN FoldPath(<<"I", acc, path[k]>>, (pos - 1) \div 2, path, k + 1)
    ELSE FoldPath(<<"I", path[k], acc>>, (pos - 1) \div 2, path, k + 1)

(***************************************************************************)
(* C1  Rebuild equivalence: build(P) followed by rebuild(start_index =       *)
(* len(P), X) succeeds and returns the root and the nodes of build(P ++ X),  *)
(* for every split with the full tree within DEPTH, an empty X included.     *)
(***************************************************************************)
C1_RebuildEquivalence ==
    (/\ call.op = "rebuild"
     /\ call.oldOrigin.by = "new"
     /\ call.start_hi = 0
     /\ call.start_index = Len(call.oldOrigin.leaves)
     /\ DepthOf(call.start_index + Len(call.leaves)) <= DEPTH)
    => /\ call.res.kind = "Ok"
       /\ call.res.tree.root = new(call.oldOrigin.leaves \o call.leaves).tree.root
       /\ call.res.tree.tree = new(call.oldOrigin.leaves \o call.leaves).tree.tree

(***************************************************************************)
(* C2  Proof round trip: on a tree returned by build(leaves), for every     *)
(* i < len(leaves), generate_proof(i, leaves[i]) returns a path of exactly  *)
(* DEPTH digests that folds from hashLeaf(leaves[i]) to the root; with      *)
(* DEPTH = 3 and three leaves the path of index 2 is                        *)
(* [empty, hashInner(leaf 0, leaf 1), empty].                               *)
(***************************************************************************)
C2_ProofRoundTrip ==
    (/\ call.op = "generate_proof"
     /\ call.oldOrigin.by = "new"
     /\ call.index < Len(call.oldOrigin.leaves)
     /\ call.leaf = call.oldOrigin.leaves[call.index + 1])
    => /\ call.res.kind = "Ok"
       /\ Len(call.res.path) = DEPTH
       /\ FoldPath(<<"L", call.leaf>>, call.old.hashed_leaves_index + call.index,
                   call.res.path, 1) = call.old.root
       /\ (DEPTH = 3 /\ Len(call.oldOrigin.leaves) = 3 /\ call.index = 2)
          => call.res.path = << <<"E">>,
                                <<"I", <<"L", call.oldOrigin.leaves[1]>>,
                                       <<"L", call.oldOrigin.leaves[2]>> >>,
                                <<"E">> >>

C2_Witness ==
    /\ call.op = "generate_proof"
    /\ call.oldOrigin.by = "new"
    /\ DEPTH = 3
    /\ call.oldOrigin.leaves = <<1, 2, 1>>
    /\ call.index = 2
    /\ call.leaf = 1
    /\ call.res.kind = "Ok"

(***************************************************************************)
(* C3  Every call of build, rebuild and generate_proof ends by returning a  *)
(* valid value or a typed error; none ends in a panic.                      *)
(***************************************************************************)
C3_NoPanic == call.res.kind # "Panic"

(***************************************************************************)
(* C4  Padding invariant: the root of every tree returned by build or by a  *)
(* successful rebuild is nodes[0] hashed DEPTH - actual_depth times against *)
(* the empty digest, and padding_pairs has DEPTH - actual_depth - 1 entries *)
(* (0 when not positive), the k-th (from 0) being (nodes[0] after k + 1     *)
(* hashes, empty).                                                          *)
(***************************************************************************)
C4_PaddingInvariant ==
    self # DefaultTree
    => LET d == ActualDepth(self)
       IN  /\ self.root = HashChain(self.tree[0], DEPTH - d)
           /\ Len(self.padding_tree) = (IF DEPTH - d - 1 > 0 THEN DEPTH - d - 1 ELSE 0)
           /\ \A k \in 1..Len(self.padding_tree) :
                 self.padding_tree[k] = <<HashChain(self.tree[0], k), <<"E">> >>

\* A second rebuild in a row that changed nodes[0] and computed a padding of two pairs.
C4_Witness ==
    /\ Returned("rebuild")
    /\ origin.rebuilds = 2
    /\ Len(self.padding_tree) = 2
    /\ self.tree[0] # call.old.tree[0]

(***************************************************************************)
(* C5  Structural invariant: every tree returned by build or by a           *)
(* successful rebuild has 2L - 1 nodes, L the next power of two >= the      *)
(* total leaf count, leaf_offset = L - 1, every internal node the hash of   *)
(* its two children, and the empty digest in every leaf slot at or beyond   *)
(* the total leaf count.                                                    *)
(***************************************************************************)
C5_StructuralInvariant ==
    self # DefaultTree
    => LET L == Pow2(DepthOf(origin.count))
       IN  /\ DOMAIN self.tree = 0..(2 * L - 2)
           /\ self.hashed_leaves_index = L - 1
           /\ \A i \in 0..(L - 2) :
                 self.tree[i] = <<"I", self.tree[2 * i + 1], self.tree[2 * i + 2]>>
           /\ \A k \in origin.count..(L - 1) : self.tree[L - 1 + k] = <<"E">>

\* A rebuild that kept a node of the old tree without hashing it again.
C5_Witness ==
    /\ Returned("rebuild")
    /\ origin.rebuilds = 2
    /\ Len(call.leaves) > 0
    /\ len(self.tree) = 7
    /\ call.res.hashes < 1 + Len(call.leaves) + 3 + (DEPTH - 2)

(***************************************************************************)
(* C6  Depth rejection: build on n leaves, and rebuild with                 *)
(* n = start_index + len(new_leaves), return InvalidTreeDepth(actual_depth, *)
(* DEPTH) exactly when actual_depth > DEPTH, before any hash call.          *)
(***************************************************************************)
C6_DepthRejection ==
    call.op \in {"new", "rebuild"}
    => LET low == call.start_index + Len(call.leaves)
           d == IF call.start_hi = 0 THEN DepthOf(low)
                ELSE IF low = 0 THEN HighBit ELSE HighBit + 1
       IN  /\ d > DEPTH => /\ call.res.kind = "Err"
                           /\ call.res.err = <<"InvalidTreeDepth", d, DEPTH>>
                           /\ call.res.hashes = 0
           /\ d <= DEPTH => call.res.err[1] # "InvalidTreeDepth"

(***************************************************************************)
(* C7  Tamper detection: generate_proof with a leaf whose digest differs    *)
(* from the digest recorded in the slot of the index returns                *)
(* IncorrectLeafIndex(leaf_offset + index) and no path.                     *)
(***************************************************************************)
C7_TamperDetection ==
    (/\ call.op = "generate_proof"
     /\ call.old.hashed_leaves_index + call.index \in DOMAIN call.old.tree
     /\ call.old.tree[call.old.hashed_leaves_index + call.index] # <<"L", call.leaf>>)
    => /\ call.res.kind = "Err"
       /\ call.res.err = <<"IncorrectLeafIndex", call.old.hashed_leaves_index + call.index, 0>>
       /\ call.res.path = <<>>

\* The right leaf at a wrong index, on a rebuilt tree.
C7_Witness ==
    /\ call.op = "generate_proof"
    /\ call.oldOrigin.by = "rebuild"
    /\ call.index = 1
    /\ call.old.hashed_leaves_index = 3
    /\ call.old.tree[3] = <<"L", call.leaf>>
    /\ call.old.tree[4] # <<"L", call.leaf>>
    /\ call.res.kind = "Err"

(***************************************************************************)
(* C8  Minimal recomputation: in a rebuild that appends to a tree holding   *)
(* exactly start_index leaves and keeps the size of the array, every        *)
(* position that is neither the slot of a new leaf nor above one holds the  *)
(* digest it held in the old tree.                                          *)
(***************************************************************************)
NewSlots == {self.hashed_leaves_index + call.start_index + j : j \in 0..(Len(call.leaves) - 1)}

Touched == NewSlots \cup UNION {StrictAncestors(pos) : pos \in NewSlots}

C8_MinimalRecomputation ==
    (/\ Returned("rebuild")
     /\ call.oldOrigin.count = call.start_index
     /\ DOMAIN self.tree = DOMAIN call.old.tree)
    => \A pos \in DOMAIN self.tree : pos \notin Touched => self.tree[pos] = call.old.tree[pos]

\* A leaf appended to three leaves: the left half of the tree is untouched.
C8_Witness ==
    /\ Returned("rebuild")
    /\ call.oldOrigin.count = 3
    /\ call.start_index = 3
    /\ Len(call.leaves) = 1
    /\ len(self.tree) = 7
    /\ len(call.old.tree) = 7
    /\ self.tree[1] = call.old.tree[1]
    /\ self.tree[2] # call.old.tree[2]

(***************************************************************************)
(* C9  Batch-size independence: for every batch size, rebuild stores         *)
(* hashLeaf(new_leaves[j]) at nodes[leaf_offset + start_index + j] for      *)
(* every j, and build stores hashLeaf(leaves[k]) at nodes[leaf_offset + k]. *)
(***************************************************************************)
C9_BatchIndependence ==
    /\ Returned("new")
       => \A k \in 1..Len(call.leaves) :
             self.tree[self.hashed_leaves_index + k - 1] = <<"L", call.leaves[k]>>
    /\ Returned("rebuild")
       => \A j \in 1..Len(call.leaves) :
             self.tree[self.hashed_leaves_index + call.start_index + j - 1]
                = <<"L", call.leaves[j]>>

(***************************************************************************)
(* C10  Padding reuse: whenever rebuild computes a nodes[0] equal to that   *)
(* of the old tree, it returns a tree with the padding_pairs and the root   *)
(* of the old tree, also when the old padding_pairs is empty.               *)
(***************************************************************************)
C10_PaddingReuse ==
    (/\ call.op = "rebuild"
     /\ call.start_hi = 0
     /\ DepthOf(call.start_index + Len(call.leaves)) <= DEPTH
     /\ call.start_index <= len(hashed_leaves(call.old))
     /\ RebuildTree(call.old, call.start_index, call.leaves).tree[0] = call.old.tree[0])
    => /\ call.res.kind = "Ok"
       /\ call.res.tree.padding_tree = call.old.padding_tree
       /\ call.res.tree.root = call.old.root
====
